---- MODULE Spec2Model ----
(***************************************************************************)
(* HappyPlugin: the orchestration engine of happypack.                     *)
(*                                                                         *)
(* The engine is single threaded: every handler below (a webpack hook, a   *)
(* callback of the thread pool, of a worker or of applyLoaders) runs to    *)
(* completion, so each one is one action.  The host (webpack), the thread  *)
(* pool, the workers and the file system are the environment: they choose  *)
(* which handler runs next and with which outcome.                         *)
(*                                                                         *)
(* `ev' is a history variable: the handler that ran last, the calls it     *)
(* made in program order (`steps'), and what it handed to its callback.    *)
(***************************************************************************)
EXTENDS Integers, Sequences, FiniteSets, TLC

\* ---------------------------------------------------------------- bounds
MaxPools == 2     \* thread pools constructed in one run of the model
MaxMTime == 2     \* source files are edited until their mtime reaches this

\* ------------------------------------------------------------ vocabulary
Paths == {"a.js", "b.js"}
NoPath == "-"
Null == "null"

\* HappyUtils.generateCompiledPath: one artifact location per source file
generateCompiledPath(filePath) ==
  CASE filePath = "a.js" -> "s--a.js"
    [] filePath = "b.js" -> "s--b.js"

CompiledPaths == {generateCompiledPath(f) : f \in Paths}

\* what compile hands to its callback, and what an artifact file holds:
\* code compiled from version `ver' of the source, or (ok = FALSE) the
\* error text of a failed transform of that version
NoContent == [ok |-> FALSE, ver |-> 0]
Content(ok, ver) == [ok |-> ok, ver |-> ver]

\* HappyFSCache: cache.mtimes[filePath] = { mtime, compiledPath, error }
NoEntry == [mtime |-> 0, compiledPath |-> Null, error |-> FALSE]
Entry(mtime, compiledPath, error) ==
  [mtime |-> mtime, compiledPath |-> compiledPath, error |-> error]

NoFlight == [via |-> "none", at |-> 0]
NoPool == [st |-> "none", cb |-> "none"]

VARIABLES
  files,          \* the source files of the project the host builds
  state,          \* this.state: [started, initialBuildCompleted]
  config,         \* this.config: [cache, installExitHandler]
  compilerOptions,\* compiler.options: [bail, watch]
  threadPool,     \* this.threadPool: 0 (undefined) or the pool's number
  pools,          \* every HappyThreadPool constructed: [st, cb]
  cache,          \* the cache in memory (HappyFSCache's mtimes)
  cacheFile,      \* the cache file on disk
  optionsFile,    \* whether the options snapshot is on disk
  mtime,          \* the signature of each source file on disk
  compiled,       \* the artifact files on disk, by compiled path
  inflight,       \* per path: the transform that has not called back yet
  failed,         \* the paths whose last transform reported failure
  exited,         \* the process has exited
  ev,             \* the handler that ran last
  userConfig,     \* the argument of new HappyPlugin(userConfig)
  plugin,         \* the HappyPlugin under construction
  hostConfig,     \* the argument of HappyPlugin.extractOptions
  snapshot        \* what HappyPlugin.extractOptions returned

vars == <<files, state, config, compilerOptions, threadPool, pools, cache, cacheFile,
          optionsFile, mtime, compiled, inflight, failed, exited, ev,
          userConfig, plugin, hostConfig, snapshot>>

\* the variables of the constructor and of extractOptions, which the
\* handlers of a constructed engine never touch
NoPlugin == [phase |-> "new", id |-> "", error |-> "", steps |-> <<>>,
             config |-> <<>>, hooks |-> {}]
NoSnapshot == [called |-> FALSE, value |-> <<>>]

\* op: the handler; path, pool: what it was called for; steps: its calls in
\* program order; ret: what it passed to its callback ("none": the callback
\* was not called in this handler); content: the code it passed
Ev(op, path, pool, steps, ret, content) ==
  [op |-> op, path |-> path, pool |-> pool, steps |-> steps, ret |-> ret,
   content |-> content]

\* the cache file an earlier run left for the files fs: none, or one that
\* records for each file the artifact of the current source, or an error
EmptyCache == [f \in Paths |-> NoEntry]
OldCacheFiles(fs) ==
  { EmptyCache,
    [f \in Paths |-> IF f \in fs
                     THEN Entry(1, generateCompiledPath(f), FALSE) ELSE NoEntry],
    [f \in Paths |-> IF f \in fs THEN Entry(1, Null, TRUE) ELSE NoEntry] }

\* the state after new HappyPlugin(userConfig) and apply(compiler), for a
\* project of the files fs.  A cache file matters only when caching is on.
InitFor(fs) ==
  /\ files = fs
  /\ state = [started |-> FALSE, initialBuildCompleted |-> FALSE]
  /\ config \in [cache : BOOLEAN, installExitHandler : BOOLEAN]
  /\ compilerOptions \in [bail : BOOLEAN, watch : BOOLEAN]
  /\ threadPool = 0
  /\ pools = [p \in 1..MaxPools |-> NoPool]
  /\ cache = EmptyCache
  /\ cacheFile \in IF config.cache THEN OldCacheFiles(fs) ELSE {EmptyCache}
  /\ optionsFile = FALSE
  /\ mtime = [f \in Paths |-> 1]
  /\ compiled = [c \in CompiledPaths |-> Content(TRUE, 1)]
  /\ inflight = [f \in Paths |-> NoFlight]
  /\ failed = {}
  /\ exited = FALSE
  /\ ev = Ev("init", NoPath, 0, <<>>, "none", NoContent)

\* the project explored: one source file, under every configuration
Init ==
  /\ InitFor({"a.js"})
  /\ userConfig = <<>> /\ plugin = NoPlugin
  /\ hostConfig = <<>> /\ snapshot = NoSnapshot

\* ------------------------------------------------------------- lifecycle
\* HappyFSCache.load: the cache file replaces the cache in memory (a
\* missing or corrupt file is an empty cache)
load == cacheFile

\* the number of the pool HappyThreadPool(config) would return next
NextPool == Cardinality({p \in 1..MaxPools : pools[p].st # "none"}) + 1

\* teardown without its last assignment, state.started = false
teardownStaysStarted ==
  IF state.started
  THEN [started   |-> TRUE,
        cacheFile |-> IF config.cache THEN cache ELSE cacheFile,
        pools     |-> IF threadPool # 0
                      THEN [pools EXCEPT ![threadPool].st = "stopped"]
                      ELSE pools,
        steps     |-> (IF config.cache THEN <<"cache.save">> ELSE <<>>)
                      \o (IF threadPool # 0 THEN <<"threadPool.stop">> ELSE <<>>)]
  ELSE [started |-> state.started, cacheFile |-> cacheFile, pools |-> pools,
        steps |-> <<>>]

\* function teardown(): what it leaves in state.started, the cache file and
\* the pools, and the calls it made
teardown ==
  IF state.started
  THEN [started   |-> FALSE,
        cacheFile |-> IF config.cache THEN cache ELSE cacheFile,
        pools     |-> IF threadPool # 0
                      THEN [pools EXCEPT ![threadPool].st = "stopped"]
                      ELSE pools,
        steps     |-> (IF config.cache THEN <<"cache.save">> ELSE <<>>)
                      \o (IF threadPool # 0 THEN <<"threadPool.stop">> ELSE <<>>)
                      \o <<"started:=false">>]
  ELSE [started |-> state.started, cacheFile |-> cacheFile, pools |-> pools,
        steps |-> <<>>]

\* start's guard without the initialBuildCompleted test
startIsNoopWhenStarted == state.started

\* start's guard: the engine is started, or the initial build is over
startIsNoop == state.started \/ state.initialBuildCompleted

\* start loading the cache whatever config.cache is
startLoadsCacheAlways == TRUE

\* start's condition for loading the cache
startLoadsCache == config.cache

\* function start(_, done): the 'run' and 'watch-run' hook.  writeOk: whether
\* fs.writeFileSync of the options snapshot succeeds
start(writeOk) ==
  /\ ~exited
  /\ IF startIsNoop
     THEN /\ ev' = Ev("start", NoPath, 0, <<"done">>, "ok", NoContent)
          /\ UNCHANGED <<state, threadPool, pools, cache, optionsFile>>
     ELSE IF ~writeOk
     THEN /\ ev' = Ev("start", NoPath, 0, <<"writeFileSync:throw", "done">>,
                      "err", NoContent)
          /\ UNCHANGED <<state, threadPool, pools, cache, optionsFile>>
     ELSE /\ NextPool <= MaxPools
          /\ optionsFile' = TRUE
          /\ threadPool' = NextPool
          /\ pools' = [pools EXCEPT ![NextPool] = [st |-> "open", cb |-> "pending"]]
          /\ cache' = IF startLoadsCache THEN load ELSE cache
          /\ ev' = Ev("start", NoPath, NextPool,
                      <<"writeFileSync", "HappyThreadPool">>
                        \o (IF startLoadsCache THEN <<"cache.load">> ELSE <<>>)
                        \o <<"threadPool.start">>,
                      "none", NoContent)
          /\ UNCHANGED state
  /\ UNCHANGED <<files, config, compilerOptions, cacheFile, mtime, compiled, inflight,
                 failed, exited,
                 userConfig, plugin, hostConfig, snapshot>>

\* the start callback with the `return' of its error branch left out: after
\* done(err) it goes on to set started and to call done again
startCallbackFallsThrough(p, err) ==
  /\ ~exited
  /\ pools[p].cb = "pending"
  /\ pools' = [pools EXCEPT ![p].cb = IF err THEN "err" ELSE "ok"]
  /\ state' = [state EXCEPT !.started = TRUE]
  /\ ev' = Ev("startCallback", NoPath, p,
              (IF err THEN <<"done">> ELSE <<>>) \o <<"started:=true", "done">>,
              IF err THEN "err" ELSE "ok", NoContent)
  /\ UNCHANGED <<files, config, compilerOptions, threadPool, cache, cacheFile,
                 optionsFile, mtime, compiled, inflight, failed, exited,
                 userConfig, plugin, hostConfig, snapshot>>

\* the callback start() passes to threadPool.start, called by pool p
startCallback(p, err) ==
  /\ ~exited
  /\ pools[p].cb = "pending"
  /\ IF err
     THEN /\ pools' = [pools EXCEPT ![p].cb = "err"]
          /\ ev' = Ev("startCallback", NoPath, p, <<"done">>, "err", NoContent)
          /\ UNCHANGED state
     ELSE /\ pools' = [pools EXCEPT ![p].cb = "ok"]
          /\ state' = [state EXCEPT !.started = TRUE]
          /\ ev' = Ev("startCallback", NoPath, p, <<"started:=true", "done">>,
                      "ok", NoContent)
  /\ UNCHANGED <<files, config, compilerOptions, threadPool, cache, cacheFile,
                 optionsFile, mtime, compiled, inflight, failed, exited,
                 userConfig, plugin, hostConfig, snapshot>>

\* the 'done' hook setting the flag without running teardown
doneSkipsTeardown ==
  /\ ~exited
  /\ state' = [state EXCEPT !.initialBuildCompleted = TRUE]
  /\ ev' = Ev("done", NoPath, 0, <<"initialBuildCompleted:=true">>, "none",
              NoContent)
  /\ UNCHANGED <<files, config, compilerOptions, threadPool, pools, cache, cacheFile,
                 optionsFile, mtime, compiled, inflight, failed, exited,
                 userConfig, plugin, hostConfig, snapshot>>

\* compiler.plugin('done', ...)
done ==
  /\ ~exited
  /\ state' = [started |-> teardown.started, initialBuildCompleted |-> TRUE]
  /\ cacheFile' = teardown.cacheFile
  /\ pools' = teardown.pools
  /\ ev' = Ev("done", NoPath, 0,
              teardown.steps \o <<"initialBuildCompleted:=true">>, "none",
              NoContent)
  /\ UNCHANGED <<files, config, compilerOptions, threadPool, cache, optionsFile, mtime,
                 compiled, inflight, failed, exited,
                 userConfig, plugin, hostConfig, snapshot>>

\* failed-module tearing down whether or not bail is configured
failedModuleIgnoresBail ==
  /\ ~exited
  /\ state' = [state EXCEPT !.started = teardown.started]
  /\ cacheFile' = teardown.cacheFile
  /\ pools' = teardown.pools
  /\ ev' = Ev("failed-module", NoPath, 0, teardown.steps, "none", NoContent)
  /\ UNCHANGED <<files, config, compilerOptions, threadPool, cache, optionsFile, mtime,
                 compiled, inflight, failed, exited,
                 userConfig, plugin, hostConfig, snapshot>>

\* compilation.plugin('failed-module', teardown), registered under bail
failedModule ==
  /\ ~exited
  /\ IF compilerOptions.bail
     THEN /\ state' = [state EXCEPT !.started = teardown.started]
          /\ cacheFile' = teardown.cacheFile
          /\ pools' = teardown.pools
          /\ ev' = Ev("failed-module", NoPath, 0, teardown.steps, "none", NoContent)
     ELSE /\ ev' = Ev("failed-module", NoPath, 0, <<>>, "none", NoContent)
          /\ UNCHANGED <<state, cacheFile, pools>>
  /\ UNCHANGED <<files, config, compilerOptions, threadPool, cache, optionsFile, mtime,
                 compiled, inflight, failed, exited,
                 userConfig, plugin, hostConfig, snapshot>>

\* process.on('exit', teardown), registered in watch mode unless
\* installExitHandler is false
exit ==
  /\ ~exited
  /\ exited' = TRUE
  /\ IF compilerOptions.watch /\ config.installExitHandler # FALSE
     THEN /\ state' = [state EXCEPT !.started = teardown.started]
          /\ cacheFile' = teardown.cacheFile
          /\ pools' = teardown.pools
          /\ ev' = Ev("exit", NoPath, 0, teardown.steps, "none", NoContent)
     ELSE /\ ev' = Ev("exit", NoPath, 0, <<>>, "none", NoContent)
          /\ UNCHANGED <<state, cacheFile, pools>>
  /\ UNCHANGED <<files, config, compilerOptions, threadPool, cache, optionsFile, mtime,
                 compiled, inflight, failed,
                 userConfig, plugin, hostConfig, snapshot>>

\* ---------------------------------------------------------------- cache
\* HappyFSCache.hasChanged: the file's signature is not the recorded one
hasChanged(filePath) == mtime[filePath] # cache[filePath].mtime

\* HappyFSCache.hasErrored
hasErrored(filePath) == cache[filePath].error

\* HappyFSCache.getCompiledPath
getCompiledPath(filePath) == cache[filePath].compiledPath

\* HappyFSCache.invalidateEntryFor: the cache without filePath's entry
invalidateEntryFor(filePath) == [cache EXCEPT ![filePath] = NoEntry]

\* HappyFSCache.updateMTimeFor(filePath, compiledPath, error): the cache with
\* filePath's entry set to the file's signature now; error: whether an error
\* text was passed
updateMTimeFor(filePath, compiledPath, error) ==
  [cache EXCEPT ![filePath] = Entry(mtime[filePath], compiledPath, error)]

\* ------------------------------------------------------- compile router
\* compileInBackground with the `return' of its cache branch left out: after
\* handing the cached artifact to done it goes on to invalidate and dispatch
compileInBackgroundFallsThrough(filePath) ==
  /\ cache' = invalidateEntryFor(filePath)
  /\ failed' = failed \ {filePath}
  /\ IF ~hasChanged(filePath) /\ ~hasErrored(filePath)
     THEN ev' = Ev("compile", filePath, threadPool,
                   <<"hasChanged", "hasErrored", "readFileSync", "done",
                     "invalidateEntryFor", "getThread.compile">>,
                   "ok", compiled[getCompiledPath(filePath)])
     ELSE ev' = Ev("compile", filePath, threadPool,
                   <<"hasChanged", "hasErrored", "invalidateEntryFor",
                     "getThread.compile">>, "none", NoContent)
  /\ inflight' = [inflight EXCEPT ![filePath] =
                    [via |-> "bg", at |-> mtime[filePath]]]

\* HappyPlugin.prototype.compileInBackground
compileInBackground(filePath) ==
  IF ~hasChanged(filePath) /\ ~hasErrored(filePath)
  THEN /\ ev' = Ev("compile", filePath, 0,
                   <<"hasChanged", "hasErrored", "readFileSync", "done">>,
                   "ok", compiled[getCompiledPath(filePath)])
       /\ failed' = failed \ {filePath}
       /\ UNCHANGED <<cache, inflight>>
  ELSE /\ cache' = invalidateEntryFor(filePath)
       /\ IF threadPool = 0
          THEN \* this.threadPool is undefined: getThread throws a TypeError
               /\ ev' = Ev("compile", filePath, 0,
                           <<"hasChanged", "hasErrored", "invalidateEntryFor",
                             "getThread:throw">>, "throw", NoContent)
               /\ failed' = failed \ {filePath}
               /\ UNCHANGED inflight
          ELSE /\ ev' = Ev("compile", filePath, threadPool,
                           <<"hasChanged", "hasErrored", "invalidateEntryFor",
                             "getThread.compile">>, "none", NoContent)
               /\ failed' = failed \ {filePath}
               /\ inflight' = [inflight EXCEPT ![filePath] =
                                 [via |-> "bg", at |-> mtime[filePath]]]

\* compileInForeground without its invalidateEntryFor call
compileInForegroundKeepsEntry(filePath) ==
  /\ ev' = Ev("compile", filePath, 0, <<"applyLoaders">>, "none", NoContent)
  /\ failed' = failed \ {filePath}
  /\ inflight' = [inflight EXCEPT ![filePath] =
                    [via |-> "fg", at |-> mtime[filePath]]]
  /\ UNCHANGED cache

\* HappyPlugin.prototype.compileInForeground, up to the applyLoaders call
compileInForeground(filePath) ==
  /\ cache' = invalidateEntryFor(filePath)
  /\ ev' = Ev("compile", filePath, 0, <<"invalidateEntryFor", "applyLoaders">>,
              "none", NoContent)
  /\ failed' = failed \ {filePath}
  /\ inflight' = [inflight EXCEPT ![filePath] =
                    [via |-> "fg", at |-> mtime[filePath]]]

\* compile routed by state.started instead of state.initialBuildCompleted
compileRoutedByStarted(filePath) ==
  /\ ~exited
  /\ inflight[filePath].via = "none"
  /\ IF ~state.started
     THEN compileInForeground(filePath)
     ELSE compileInBackground(filePath)
  /\ UNCHANGED <<state, files, config, compilerOptions, threadPool, pools, cacheFile,
                 optionsFile, mtime, compiled, exited,
                 userConfig, plugin, hostConfig, snapshot>>

\* HappyPlugin.prototype.compile.  The host has at most one request per path
\* outstanding.
compile(filePath) ==
  /\ ~exited
  /\ inflight[filePath].via = "none"
  /\ IF state.initialBuildCompleted
     THEN compileInForeground(filePath)
     ELSE compileInBackground(filePath)
  /\ UNCHANGED <<state, files, config, compilerOptions, threadPool, pools, cacheFile,
                 optionsFile, mtime, compiled, exited,
                 userConfig, plugin, hostConfig, snapshot>>

\* the worker callback recording a failure like a success: the error
\* argument of updateMTimeFor left out
workerCallbackDropsError(filePath, success) ==
  /\ ~exited
  /\ inflight[filePath].via = "bg"
  /\ compiled' = [compiled EXCEPT ![generateCompiledPath(filePath)] =
                    Content(success, inflight[filePath].at)]
  /\ inflight' = [inflight EXCEPT ![filePath] = NoFlight]
  /\ cache' = updateMTimeFor(filePath, generateCompiledPath(filePath), FALSE)
  /\ failed' = IF success THEN failed \ {filePath} ELSE failed \cup {filePath}
  /\ ev' = Ev("workerCallback", filePath, 0,
              <<"readFileSync", "updateMTimeFor", "done">>,
              IF success THEN "ok" ELSE "err",
              Content(success, inflight[filePath].at))
  /\ UNCHANGED <<state, files, config, compilerOptions, threadPool, pools, cacheFile,
                 optionsFile, mtime, exited,
                 userConfig, plugin, hostConfig, snapshot>>

\* the callback compileInBackground passes to the worker.  The worker has
\* written result.compiledPath: the code, or the error text, of the source
\* it was sent to compile
workerCallback(filePath, success) ==
  /\ ~exited
  /\ inflight[filePath].via = "bg"
  /\ compiled' = [compiled EXCEPT ![generateCompiledPath(filePath)] =
                    Content(success, inflight[filePath].at)]
  /\ inflight' = [inflight EXCEPT ![filePath] = NoFlight]
  /\ IF ~success
     THEN /\ cache' = updateMTimeFor(filePath, Null, TRUE)
          /\ failed' = failed \cup {filePath}
          /\ ev' = Ev("workerCallback", filePath, 0,
                      <<"readFileSync", "updateMTimeFor", "done">>, "err",
                      Content(success, inflight[filePath].at))
     ELSE /\ cache' = updateMTimeFor(filePath, generateCompiledPath(filePath), FALSE)
          /\ failed' = failed \ {filePath}
          /\ ev' = Ev("workerCallback", filePath, 0,
                      <<"readFileSync", "updateMTimeFor", "done">>, "ok",
                      Content(success, inflight[filePath].at))
  /\ UNCHANGED <<state, files, config, compilerOptions, threadPool, pools, cacheFile,
                 optionsFile, mtime, exited,
                 userConfig, plugin, hostConfig, snapshot>>

\* the applyLoaders callback recording a failure in the cache, the way the
\* worker callback does
applyLoadersCallbackCachesError(filePath, err) ==
  /\ ~exited
  /\ inflight[filePath].via = "fg"
  /\ inflight' = [inflight EXCEPT ![filePath] = NoFlight]
  /\ IF err
     THEN /\ failed' = failed \cup {filePath}
          /\ cache' = updateMTimeFor(filePath, Null, TRUE)
          /\ ev' = Ev("applyLoadersCallback", filePath, 0,
                      <<"updateMTimeFor", "done">>, "err", NoContent)
          /\ UNCHANGED compiled
     ELSE /\ compiled' = [compiled EXCEPT ![generateCompiledPath(filePath)] =
                            Content(TRUE, inflight[filePath].at)]
          /\ cache' = updateMTimeFor(filePath, generateCompiledPath(filePath), FALSE)
          /\ failed' = failed \ {filePath}
          /\ ev' = Ev("applyLoadersCallback", filePath, 0,
                      <<"writeFileSync", "updateMTimeFor", "done">>, "ok",
                      Content(TRUE, inflight[filePath].at))
  /\ UNCHANGED <<state, files, config, compilerOptions, threadPool, pools,
                 cacheFile, optionsFile, mtime, exited,
                 userConfig, plugin, hostConfig, snapshot>>

\* the callback compileInForeground passes to applyLoaders, which was given
\* the source the host read when it called compile
applyLoadersCallback(filePath, err) ==
  /\ ~exited
  /\ inflight[filePath].via = "fg"
  /\ inflight' = [inflight EXCEPT ![filePath] = NoFlight]
  /\ IF err
     THEN /\ failed' = failed \cup {filePath}
          /\ ev' = Ev("applyLoadersCallback", filePath, 0, <<"done">>, "err",
                      NoContent)
          /\ UNCHANGED <<cache, compiled>>
     ELSE /\ compiled' = [compiled EXCEPT ![generateCompiledPath(filePath)] =
                            Content(TRUE, inflight[filePath].at)]
          /\ cache' = updateMTimeFor(filePath, generateCompiledPath(filePath), FALSE)
          /\ failed' = failed \ {filePath}
          /\ ev' = Ev("applyLoadersCallback", filePath, 0,
                      <<"writeFileSync", "updateMTimeFor", "done">>, "ok",
                      Content(TRUE, inflight[filePath].at))
  /\ UNCHANGED <<state, files, config, compilerOptions, threadPool, pools, cacheFile,
                 optionsFile, mtime, exited,
                 userConfig, plugin, hostConfig, snapshot>>

\* the user saves a source file
editFile(filePath) ==
  /\ ~exited
  /\ mtime[filePath] < MaxMTime
  /\ mtime' = [mtime EXCEPT ![filePath] = @ + 1]
  /\ ev' = Ev("edit", filePath, 0, <<>>, "none", NoContent)
  /\ UNCHANGED <<state, files, config, compilerOptions, threadPool, pools, cache,
                 cacheFile, optionsFile, compiled, inflight, failed, exited,
                 userConfig, plugin, hostConfig, snapshot>>

Next ==
  \/ start(TRUE)
  \/ start(FALSE)
  \/ \E p \in 1..MaxPools, err \in BOOLEAN : startCallback(p, err)
  \/ done
  \/ failedModule
  \/ exit
  \/ \E f \in files : compile(f)
  \/ \E f \in files, success \in BOOLEAN : workerCallback(f, success)
  \/ \E f \in files, err \in BOOLEAN : applyLoadersCallback(f, err)
  \/ \E f \in files : editFile(f)

Spec == Init /\ [][Next]_vars

\* --------------------------------------------------------------- helpers
Range(seq) == {seq[i] : i \in 1..Len(seq)}

\* the position of the first call `step' among the calls `steps', 0 if none
IndexOf(steps, step) ==
  IF step \in Range(steps)
  THEN CHOOSE i \in 1..Len(steps) :
         steps[i] = step /\ \A j \in 1..(i - 1) : steps[j] # step
  ELSE 0

\* the step just taken ran the handler op
Ran(op) == ev'.op = op /\ vars' # vars

\* the cache holds an entry for f that compileInBackground would serve
Servable(f) == cache[f] # NoEntry /\ ~hasChanged(f) /\ ~hasErrored(f)

\* ---------------------------------------------------------------- claims

\* C1: a compile call takes the background path (cache or thread pool) only
\* while initialBuildCompleted is false; with the flag true it takes the
\* foreground path: it invalidates and calls applyLoaders, asks the cache
\* nothing and dispatches to no pool, whatever started is.  compile leaves
\* `state' alone, so the state after the call shows the flag it was routed by.
C1_RoutedByInitialBuildCompleted ==
  ev.op = "compile" =>
    IF state.initialBuildCompleted
    THEN /\ ev.steps = <<"invalidateEntryFor", "applyLoaders">>
         /\ inflight[ev.path].via = "fg"
         /\ ev.pool = 0
    ELSE /\ Head(ev.steps) = "hasChanged"
         /\ "applyLoaders" \notin Range(ev.steps)
         /\ inflight[ev.path].via # "fg"

\* C1 witness: a foreground compile while started is true and the pool is
\* still open (a pool's late ready callback after the initial build)
C1_Witness ==
  /\ ev.op = "compile"
  /\ state.initialBuildCompleted /\ state.started
  /\ threadPool # 0 /\ pools[threadPool].st = "open"
  /\ inflight[ev.path].via = "fg"

\* C2: initialBuildCompleted is false at construction, is never reset, and
\* turns true only in the 'done' handler, as its last step, after teardown
\* has run (started is false when the flag turns true)
C2_FlagSetOnceByDone ==
  /\ ~state.initialBuildCompleted
  /\ [][/\ state.initialBuildCompleted => state'.initialBuildCompleted
        /\ (~state.initialBuildCompleted /\ state'.initialBuildCompleted) =>
             /\ ev'.op = "done"
             /\ ev'.steps = teardown.steps \o <<"initialBuildCompleted:=true">>
             /\ ~state'.started
             /\ state.started => "threadPool.stop" \in Range(ev'.steps)]_vars

\* C2 witness: the 'done' handler has torn down a started engine and set
\* the flag
C2_Witness ==
  /\ ev.op = "done"
  /\ "threadPool.stop" \in Range(ev.steps)
  /\ state.initialBuildCompleted

\* C3: before the initial build completes, a compile of a path whose cache
\* entry is unchanged and not errored returns, with no error, the content of
\* the file at the entry's compiled path; it dispatches nothing and leaves
\* the cache as it is (so the next call hits again)
C3_CacheShortCircuit ==
  [][\A f \in files :
       (/\ Ran("compile") /\ ev'.path = f
        /\ ~state.initialBuildCompleted
        /\ ~hasChanged(f) /\ ~hasErrored(f))
       => /\ ev'.ret = "ok"
          /\ ev'.content = compiled[cache[f].compiledPath]
          /\ "getThread.compile" \notin Range(ev'.steps)
          /\ "invalidateEntryFor" \notin Range(ev'.steps)
          /\ UNCHANGED <<cache, inflight, pools, compiled>>]_vars

\* C3 witness: a cache hit that served the artifact of the current source
C3_Witness ==
  /\ ev.op = "compile" /\ ev.ret = "ok"
  /\ ~state.initialBuildCompleted
  /\ Servable(ev.path)
  /\ ev.content = Content(TRUE, mtime[ev.path])

\* C4: on both paths invalidateEntryFor is called before the transform is
\* started (getThread.compile, applyLoaders); and whenever a transform of f
\* is in flight or the last one failed, the cache holds no entry for f that
\* a compile would serve
C4_InvalidateBeforeCompile ==
  /\ ev.op = "compile" /\ inflight[ev.path].via # "none" =>
       /\ IndexOf(ev.steps, "invalidateEntryFor") > 0
       /\ \A s \in {"getThread.compile", "applyLoaders"} :
            s \in Range(ev.steps) =>
              IndexOf(ev.steps, "invalidateEntryFor") < IndexOf(ev.steps, s)
       /\ cache[ev.path] = NoEntry
  /\ \A f \in files :
       (inflight[f].via # "none" \/ f \in failed) => ~Servable(f)

\* C4 witness: the foreground transform of an unchanged file failed while
\* the cache file still records its earlier success; the cache in memory
\* holds nothing for it
C4_Witness ==
  \E f \in files :
    /\ f \in failed /\ state.initialBuildCompleted
    /\ cacheFile[f] = Entry(mtime[f], generateCompiledPath(f), FALSE)
    /\ cache[f] = NoEntry

\* C5: after a transform of f reported failure, the next compile of f runs
\* the transform again (it dispatches to a worker or calls applyLoaders) and
\* returns nothing from the cache
C5_FailureIsRetried ==
  [][\A f \in files :
       (Ran("compile") /\ ev'.path = f /\ f \in failed)
       => /\ ev'.ret = "none"
          /\ inflight'[f].via # "none"
          /\ \E s \in {"getThread.compile", "applyLoaders"} :
               s \in Range(ev'.steps)]_vars

\* C5 witness: a compile dispatched to a worker while the artifact file
\* holds the error text of the same version of the source: the retry of a
\* failed transform of an unchanged file
C5_Witness ==
  /\ ev.op = "compile"
  /\ inflight[ev.path].via = "bg"
  /\ compiled[generateCompiledPath(ev.path)] = Content(FALSE, mtime[ev.path])

\* C6: a build-begin event that arrives while an earlier one of the same
\* build is waiting for its pool or has been told it is ready (no 'done' and
\* no teardown since) signals readiness at once and writes no snapshot,
\* constructs and starts no pool
C6_SecondBuildBeginIsNoop ==
  [][(/\ Ran("start")
      /\ ~state.initialBuildCompleted
      /\ threadPool # 0
      /\ pools[threadPool].st = "open"
      /\ pools[threadPool].cb \in {"pending", "ok"})
     => /\ ev'.steps = <<"done">> /\ ev'.ret = "ok"
        /\ UNCHANGED <<threadPool, pools, optionsFile, cache>>]_vars

\* the handlers that call teardown in the step just taken
CallsTeardown(e) ==
  \/ e.op = "done"
  \/ e.op = "failed-module" /\ compilerOptions.bail
  \/ e.op = "exit" /\ compilerOptions.watch /\ config.installExitHandler

\* what teardown leaves alone and what it does
TeardownDidNothing ==
  /\ state'.started = state.started
  /\ UNCHANGED <<cacheFile, pools, cache, threadPool>>
  /\ Range(ev'.steps) \subseteq {"initialBuildCompleted:=true"}

TeardownDidItsWork ==
  /\ ~state'.started
  /\ cacheFile' = IF config.cache THEN cache ELSE cacheFile
  /\ pools' = [pools EXCEPT ![threadPool].st = "stopped"]
  /\ UNCHANGED <<cache, threadPool>>
  /\ SelectSeq(ev'.steps, LAMBDA s : s # "initialBuildCompleted:=true")
       = (IF config.cache THEN <<"cache.save">> ELSE <<>>)
           \o <<"threadPool.stop", "started:=false">>

\* C7: teardown works iff started is true: it then saves the cache exactly
\* when caching is enabled, stops the pool and sets started to false; when
\* not started it changes nothing.  So a teardown right after a teardown
\* saves and stops nothing.
C7_TeardownIffStarted ==
  [][(vars' # vars /\ CallsTeardown(ev')) =>
       /\ IF state.started THEN TeardownDidItsWork ELSE TeardownDidNothing
       /\ CallsTeardown(ev) => TeardownDidNothing]_vars

\* C7 witness: the exit handler ran teardown right after the 'done' handler
\* had stopped the pool, and found nothing to do
C7_Witness ==
  /\ ev.op = "exit" /\ CallsTeardown(ev) /\ ev.steps = <<>>
  /\ threadPool # 0 /\ pools[threadPool].st = "stopped"
  /\ state.initialBuildCompleted

\* C8: a build-begin event that finds started or initialBuildCompleted true
\* calls the readiness callback at once, with no error, and changes nothing;
\* and once initialBuildCompleted is true no pool is constructed or started
C8_BuildBeginNoopOutsideIdle ==
  [][/\ (Ran("start") /\ (state.started \/ state.initialBuildCompleted))
          => /\ ev'.steps = <<"done">> /\ ev'.ret = "ok"
             /\ UNCHANGED <<state, threadPool, pools, cache, cacheFile,
                            optionsFile, compiled, inflight>>
     /\ state.initialBuildCompleted
          => \A p \in 1..MaxPools :
               /\ pools[p].st = "none" => pools'[p].st = "none"
               /\ pools[p].cb = "none" => pools'[p].cb = "none"]_vars

\* C8 witness: a build-begin after the initial build, with the engine idle
\* (a watch-mode rebuild), answered at once
C8_Witness ==
  /\ ev.op = "start" /\ ev.steps = <<"done">>
  /\ state.initialBuildCompleted /\ ~state.started

C10_LoadAfterPoolStart ==
  "cache.load" \in Range(ev.steps) =>
    /\ "threadPool.start" \in Range(ev.steps)
    /\ IndexOf(ev.steps, "threadPool.start") < IndexOf(ev.steps, "cache.load")

\* C10 amended: start writes the snapshot, then constructs the pool, then
\* loads the cache if caching is enabled, and only then starts the pool,
\* which signals ready later.  The cache is never loaded before the pool is
\* constructed, never when caching is disabled, and by no other handler.
C10_StartOrder ==
  /\ (ev.op = "start" /\ ev.pool # 0) =>
       /\ ev.steps = IF config.cache
                     THEN <<"writeFileSync", "HappyThreadPool", "cache.load",
                            "threadPool.start">>
                     ELSE <<"writeFileSync", "HappyThreadPool",
                            "threadPool.start">>
       /\ optionsFile /\ threadPool = ev.pool
       /\ pools[ev.pool] = [st |-> "open", cb |-> "pending"]
       /\ config.cache => cache = cacheFile
  /\ "cache.load" \in Range(ev.steps) =>
       ev.op = "start" /\ ev.pool # 0 /\ config.cache
  /\ ~config.cache => cacheFile = EmptyCache

\* C10 witness: a start that loaded a cache file holding an entry, with its
\* pool not yet ready
C10_Witness ==
  /\ ev.op = "start" /\ "cache.load" \in Range(ev.steps)
  /\ cache # EmptyCache
  /\ pools[ev.pool].cb = "pending"

\* the step just taken reported a startup error to the host
StartupError(e) == e.op \in {"start", "startCallback"} /\ e.ret = "err"

\* C11: a failed snapshot write passes the error to the readiness callback
\* and constructs and starts no pool and loads no cache; a pool's start error
\* is passed to the readiness callback; either way started is false
\* afterwards and initialBuildCompleted is unchanged, so (the initial build
\* not being over) the build-begin event that comes next runs the Starting
\* sequence from its first step
C11_StartupErrorLeavesIdle ==
  [][/\ (Ran("start") /\ ev'.ret = "err") =>
          /\ ev'.steps = <<"writeFileSync:throw", "done">>
          /\ UNCHANGED <<state, threadPool, pools, cache, optionsFile>>
     /\ (vars' # vars /\ StartupError(ev')) =>
          /\ ~state'.started
          /\ state'.initialBuildCompleted = state.initialBuildCompleted
     /\ (Ran("start") /\ StartupError(ev) /\ ~state.initialBuildCompleted) =>
          Head(ev'.steps) \in {"writeFileSync", "writeFileSync:throw"}]_vars

\* what an applyLoaders or worker failure leaves of the engine
EngineUntouched == UNCHANGED <<state, threadPool, pools, cacheFile, optionsFile>>

\* C12: when the in-process pipeline fails for a path, the error goes to the
\* caller's callback, no artifact file is written, the cache is not updated,
\* and the cache holds no entry for the path
C12_ForegroundFailureLeavesNoEntry ==
  [][\A f \in files :
       (Ran("applyLoadersCallback") /\ ev'.path = f /\ ev'.ret # "ok") =>
         /\ ev'.ret = "err" /\ ev'.steps = <<"done">>
         /\ UNCHANGED <<cache, compiled>>
         /\ cache'[f] = NoEntry
         /\ f \in failed']_vars

\* C12 witness: the pipeline failed for a file whose earlier artifact is
\* still on disk; the cache holds nothing for it
C12_Witness ==
  /\ ev.op = "applyLoadersCallback" /\ ev.ret = "err"
  /\ cache[ev.path] = NoEntry
  /\ compiled[generateCompiledPath(ev.path)].ok

\* C13 as stated: after a failed transform, from a worker or from the
\* in-process pipeline, the cache holds an errored entry for the path
C13_EveryFailureCachedAsErrored ==
  (ev.op \in {"workerCallback", "applyLoadersCallback"} /\ ev.ret = "err") =>
    cache[ev.path].error

\* C13 amended: a failed transform leaves started, initialBuildCompleted and
\* the pools as they are.  Reported by a worker, the error text read from
\* the worker's artifact file goes to the caller as the error and the cache
\* holds an errored entry for the path, with no compiled path; reported by
\* the in-process pipeline, the error goes to the caller and the cache holds
\* no entry for the path.
C13_WorkerFailureCachedAsErrored ==
  [][\A f \in files :
       /\ (Ran("workerCallback") /\ ev'.path = f /\ ev'.ret # "ok") =>
            /\ ev'.ret = "err"
            /\ ev'.content = compiled'[generateCompiledPath(f)]
            /\ ~ev'.content.ok
            /\ cache'[f] = Entry(mtime[f], Null, TRUE)
            /\ EngineUntouched
       /\ (Ran("applyLoadersCallback") /\ ev'.path = f /\ ev'.ret # "ok") =>
            /\ ev'.ret = "err"
            /\ ~cache'[f].error
            /\ EngineUntouched]_vars

\* C13 witness: a worker reported a failure while the engine was started
C13_Witness ==
  /\ ev.op = "workerCallback" /\ ev.ret = "err"
  /\ cache[ev.path].error
  /\ state.started /\ ~state.initialBuildCompleted

\* the exit handler is registered: watch mode, installExitHandler not false
ExitHandlerInstalled == compilerOptions.watch /\ config.installExitHandler

\* the pools that have been constructed and not stopped
OpenPools == {p \in 1..MaxPools : pools[p].st = "open"}

\* C14: in watch mode with the exit handler installed, after a process exit
\* no pool the engine constructed is left un-stopped, in whatever lifecycle
\* state the exit arrives; without the handler the exit runs nothing
C14_ExitLeavesNoPoolOpen ==
  exited =>
    IF ExitHandlerInstalled
    THEN OpenPools = {} /\ ~state.started
    ELSE ev.op = "exit" /\ ev.steps = <<>>

\* C15: under bail a failed-module event tears a started engine down at
\* once, before the 'done' event (initialBuildCompleted is left alone), and
\* the 'done' event that follows saves and stops nothing; without bail a
\* failed-module event leaves started, the pools and the cache untouched
C15_BailTeardown ==
  [][/\ Ran("failed-module") =>
          /\ state'.initialBuildCompleted = state.initialBuildCompleted
          /\ IF compilerOptions.bail
             THEN IF state.started THEN TeardownDidItsWork ELSE TeardownDidNothing
             ELSE /\ ev'.steps = <<>>
                  /\ UNCHANGED <<state, threadPool, pools, cache, cacheFile>>
     /\ (Ran("done") /\ ev.op = "failed-module" /\ compilerOptions.bail) =>
          /\ ev'.steps = <<"initialBuildCompleted:=true">>
          /\ UNCHANGED <<pools, cacheFile>>]_vars

\* C15 witness: under bail a failed module made teardown save the cache and
\* stop the pool before the initial build was over
C15_Witness ==
  /\ ev.op = "failed-module" /\ compilerOptions.bail
  /\ ev.steps = <<"cache.save", "threadPool.stop", "started:=false">>
  /\ ~state.initialBuildCompleted /\ ~state.started
  /\ pools[threadPool].st = "stopped"

\* C18: a compile request takes exactly one of the three routes (served
\* from the cache, dispatched to a worker of a pool, handed to the
\* in-process pipeline), and its callback gets no error and the code on a
\* hit or a success, an error on a failure
C18_OneRouteOneCallback ==
  /\ ev.op = "compile" =>
       \/ /\ ev.ret = "ok" /\ ev.content.ok
          /\ inflight[ev.path].via = "none"
       \/ /\ ev.ret = "none" /\ "getThread.compile" \in Range(ev.steps)
          /\ ev.pool # 0 /\ inflight[ev.path].via = "bg"
       \/ /\ ev.ret = "none" /\ "applyLoaders" \in Range(ev.steps)
          /\ inflight[ev.path].via = "fg"
  /\ ev.op \in {"workerCallback", "applyLoadersCallback"} =>
       /\ ev.ret \in {"ok", "err"}
       /\ ev.ret = "ok" => ev.content.ok
       /\ Len(SelectSeq(ev.steps, LAMBDA s : s = "done")) = 1
       /\ inflight[ev.path].via = "none"

\* C19: whenever compileInBackground goes to the thread pool, a pool has
\* been constructed, has reported ready and has not been stopped, and the
\* engine is started
C19_DispatchOnlyToStartedPool ==
  (ev.op = "compile" /\ Range(ev.steps) \cap {"getThread.compile",
                                               "getThread:throw"} # {}) =>
    /\ state.started
    /\ threadPool # 0
    /\ pools[threadPool] = [st |-> "open", cb |-> "ok"]

\* C20: at most one pool is constructed and not stopped, and none is while
\* the engine is idle (not started, no pool starting)
C20_NoPoolLeaked ==
  /\ Cardinality(OpenPools) <= 1
  /\ (~state.started /\ \A p \in 1..MaxPools : pools[p].cb # "pending") =>
       OpenPools = {}

\* ------------------------------------------------ configuration objects
\* A JavaScript value: its typeof, its text (strings, booleans), its number
\* and, for an array, its items.  An object is the sequence of its own
\* enumerable properties [key, value] in insertion order.
Undefined == [type |-> "undefined", v |-> "", n |-> 0, isArray |-> FALSE, items |-> <<>>]
Str(s) == [type |-> "string", v |-> s, n |-> 0, isArray |-> FALSE, items |-> <<>>]
Num(k) == [type |-> "number", v |-> "", n |-> k, isArray |-> FALSE, items |-> <<>>]
Bool(b) == [type |-> "boolean", v |-> IF b THEN "true" ELSE "false", n |-> 0,
            isArray |-> FALSE, items |-> <<>>]
Obj == [type |-> "object", v |-> "", n |-> 0, isArray |-> FALSE, items |-> <<>>]
Arr(items) == [type |-> "object", v |-> "", n |-> 0, isArray |-> TRUE, items |-> items]

\* a value in a boolean context
Truthy(value) ==
  CASE value.type = "undefined" -> FALSE
    [] value.type = "string" -> value.v # ""
    [] value.type = "number" -> value.n # 0
    [] value.type = "boolean" -> value.v = "true"
    [] OTHER -> TRUE

\* String(value), for the values an id can have
String(value) == IF value.type = "number" THEN ToString(value.n) ELSE value.v

\* Object.keys(object)
Keys(object) == [i \in 1..Len(object) |-> object[i].key]

\* object.hasOwnProperty(key)
hasOwnProperty(object, key) == \E i \in 1..Len(object) : object[i].key = key

\* object[key] of an own property
Get(object, key) ==
  object[CHOOSE i \in 1..Len(object) : object[i].key = key].value

\* object[key] = value
Put(object, key, value) ==
  IF hasOwnProperty(object, key)
  THEN [i \in 1..Len(object) |->
          IF object[i].key = key THEN [key |-> key, value |-> value] ELSE object[i]]
  ELSE Append(object, [key |-> key, value |-> value])

\* the objects with one property out of choices[i], or none, for each i, in
\* the order of choices
RECURSIVE Objects(_)
Objects(choices) ==
  IF choices = <<>> THEN {<<>>}
  ELSE LET rest == Objects(Tail(choices))
       IN rest \cup {<<[key |-> Head(choices).key, value |-> v]>> \o o :
                       v \in Head(choices).values, o \in rest}

Reverse(seq) == [i \in 1..Len(seq) |-> seq[Len(seq) + 1 - i]]

\* ------------------------------------------------------ extractOptions
SERIALIZABLE_OPTIONS ==
  <<"cache", "context", "debug", "devtool", "resolve", "resolveLoader",
    "module", "node", "output", "target", "watch">>

\* the reduce of extractOptions from the i-th key of options on
RECURSIVE extractOptionsFrom(_, _, _)
extractOptionsFrom(options, i, hsh) ==
  IF i > Len(options) THEN hsh
  ELSE LET key == Keys(options)[i]
       IN extractOptionsFrom(options, i + 1,
            IF IndexOf(SERIALIZABLE_OPTIONS, key) - 1 > -1
            THEN Put(hsh, key, Get(options, key))
            ELSE hsh)

\* extractOptions copying every key
extractEveryOption(options) ==
  extractOptionsFrom(options, Len(options) + 1, options)

\* HappyPlugin.extractOptions
extractOptions(options) == extractOptionsFrom(options, 1, <<>>)

\* the host configurations explored: allow-listed keys and others, in two
\* insertion orders
HostConfigs ==
  LET os == Objects(<<[key |-> "cache",   values |-> {Bool(TRUE), Bool(FALSE)}],
                      [key |-> "entry",   values |-> {Str("main.js"), Obj}],
                      [key |-> "output",  values |-> {Obj, Undefined}],
                      [key |-> "plugins", values |-> {Arr(<<>>)}],
                      [key |-> "watch",   values |-> {Bool(TRUE), Undefined}]>>)
  IN os \cup {Reverse(o) : o \in os}

\* a caller (start, line 108) takes the snapshot of the host configuration
callExtractOptions ==
  /\ ~snapshot.called
  /\ snapshot' = [called |-> TRUE, value |-> extractOptions(hostConfig)]
  /\ UNCHANGED <<files, state, config, compilerOptions, threadPool, pools, cache,
                 cacheFile, optionsFile, mtime, compiled, inflight, failed, exited,
                 ev, userConfig, plugin, hostConfig>>

\* an engine that is not running: the specifications below exercise the
\* constructor and extractOptions alone
InitIdle ==
  /\ InitFor({})
  /\ config = [cache |-> TRUE, installExitHandler |-> TRUE]
  /\ compilerOptions.bail = FALSE

InitExtract ==
  /\ InitIdle
  /\ compilerOptions.watch = FALSE
  /\ userConfig = <<>> /\ plugin = NoPlugin
  /\ hostConfig \in HostConfigs
  /\ snapshot = NoSnapshot

NextExtract == callExtractOptions

SpecExtract == InitExtract /\ [][NextExtract]_vars

\* ------------------------------------------------------- OptionParser
\* function format(message)
format(displayName, message) == "HappyPack[" \o displayName \o "]: " \o message

\* the validate function of the loaders option; "" is no validation error
validateLoaders(value) ==
  IF ~value.isArray THEN "Loaders must be an array!"
  ELSE IF Len(value.items) = 0 THEN "You must specify at least one loader!"
  ELSE IF \E i \in 1..Len(value.items) : value.items[i].path = ""
       THEN "Loader must have a @path property."
  ELSE ""

DefaultThreads == 3
uid == 0

\* one option of a schema: type and validate are "" where the schema has none
Option(type, default, validate, isRequired) ==
  [type |-> type, default |-> default, validate |-> validate,
   isRequired |-> isRequired]

\* the schema the constructor passes to OptionParser
Schema ==
  <<[key |-> "id",           value |-> Option("string", Undefined, "", FALSE)],
    [key |-> "tempDir",      value |-> Option("string", Str(".happypack"), "", FALSE)],
    [key |-> "threads",      value |-> Option("number", Num(DefaultThreads), "", FALSE)],
    [key |-> "cache",        value |-> Option("boolean", Bool(TRUE), "", FALSE)],
    [key |-> "cacheContext", value |-> Option("", Obj, "", FALSE)],
    [key |-> "cachePath",    value |-> Option("string", Undefined, "", FALSE)],
    [key |-> "installExitHandler",
                             value |-> Option("boolean", Bool(TRUE), "", FALSE)],
    [key |-> "loaders",      value |-> Option("", Undefined, "loaders", TRUE)]>>

\* what parseAndValidateOptions does: it returns value, or throws error
Return(value) == [threw |-> FALSE, error |-> "", value |-> value]
Throw(error) == [threw |-> TRUE, error |-> error, value |-> <<>>]

\* function getDefaults(), from the i-th key of the schema on
RECURSIVE getDefaultsFrom(_, _, _)
getDefaultsFrom(schema, i, hsh) ==
  IF i > Len(schema) THEN hsh
  ELSE LET key == Keys(schema)[i]
       IN getDefaultsFrom(schema, i + 1,
            IF Truthy(Get(schema, key).default)
            THEN Put(hsh, key, Get(schema, key).default)
            ELSE hsh)

getDefaults(schema) == getDefaultsFrom(schema, 1, <<>>)

\* the reduce over Object.keys(params), from the i-th key on
RECURSIVE reduceParams(_, _, _, _, _)
reduceParams(params, schema, displayName, i, hsh) ==
  IF i > Len(params) THEN Return(hsh)
  ELSE
    LET key == Keys(params)[i]
        value == Get(params, key)
    IN IF ~hasOwnProperty(schema, key)
       THEN Throw(format(displayName, "Unrecognized option '" \o key \o "'"))
       ELSE
         LET spec == Get(schema, key)
             validationError ==
               IF spec.validate = "loaders" THEN validateLoaders(value) ELSE ""
         IN IF validationError # ""
            THEN Throw(format(displayName, validationError))
            ELSE IF spec.type # "" /\ value.type # spec.type
            THEN Throw(format(displayName,
                   "Option '" \o key \o "' must be of type '" \o spec.type
                   \o "' not '" \o value.type \o "'."))
            ELSE reduceParams(params, schema, displayName, i + 1,
                   Put(hsh, key,
                       IF Truthy(spec.default) /\ value.type = "undefined"
                       THEN spec.default ELSE value))

\* the required keys of the schema that params lacks, in schema order
missingRequired(params, schema) ==
  SelectSeq(Keys(schema),
            LAMBDA key : Get(schema, key).isRequired /\ ~hasOwnProperty(params, key))

\* parseAndValidateOptions without its check of the required parameters
parseWithoutRequiredCheck(params, schema, displayName) ==
  reduceParams(params, schema, displayName, 1, getDefaults(schema))

\* module.exports = function parseAndValidateOptions(params, schema, displayName)
parseAndValidateOptions(params, schema, displayName) ==
  IF missingRequired(params, schema) # <<>>
  THEN Throw(format(displayName,
         "Missing required parameter '" \o Head(missingRequired(params, schema))
         \o "'"))
  ELSE reduceParams(params, schema, displayName, 1, getDefaults(schema))

\* the user configurations explored: each option absent, valid or invalid,
\* an option the schema does not know, in two insertion orders
UserConfigs ==
  LET os == Objects(<<[key |-> "id",      values |-> {Str("js"), Num(7)}],
                      [key |-> "threads", values |-> {Num(0), Str("two")}],
                      [key |-> "verbose", values |-> {Bool(TRUE)}],
                      [key |-> "installExitHandler", values |-> {Bool(FALSE)}],
                      [key |-> "loaders",
                       values |-> {Str("babel"), Arr(<<>>), Arr(<<[path |-> ""]>>),
                                   Arr(<<[path |-> "babel"]>>)}]>>)
  IN os \cup {Reverse(o) : o \in os}

\* this.id = String(userConfig.id || ++uid)
idOf(params) ==
  IF hasOwnProperty(params, "id") /\ Truthy(Get(params, "id"))
  THEN String(Get(params, "id"))
  ELSE ToString(uid + 1)

\* function HappyPlugin(userConfig)
HappyPlugin ==
  /\ plugin.phase = "new"
  /\ LET id == idOf(userConfig)
         parsed == parseAndValidateOptions(userConfig, Schema, id)
         threads == Get(parsed.value, "threads").n
         tempDir == Get(parsed.value, "tempDir").v
     IN plugin' =
          IF parsed.threw
          THEN [plugin EXCEPT !.phase = "failed", !.id = id,
                              !.error = parsed.error,
                              !.steps = <<"OptionParser:throw">>]
          ELSE [plugin EXCEPT
                  !.phase = "constructed", !.id = id,
                  !.steps = <<"OptionParser", "mkdirSync", "HappyFSCache">>,
                  !.config =
                    Put(Put(parsed.value, "threads",
                            Num(IF threads > 1 THEN threads ELSE 1)),
                        "optionsPath",
                        Str(tempDir \o "/options--" \o id \o ".json"))]
  /\ UNCHANGED <<files, state, config, compilerOptions, threadPool, pools, cache,
                 cacheFile, optionsFile, mtime, compiled, inflight, failed, exited,
                 ev, userConfig, hostConfig, snapshot>>

\* HappyPlugin.prototype.apply: the hooks it registers
apply ==
  /\ plugin.phase = "constructed"
  /\ plugin' =
       [plugin EXCEPT
          !.phase = "applied",
          !.steps = @ \o <<"compiler.plugin">>,
          !.hooks = {"run", "watch-run", "compilation", "done"}
                    \cup IF /\ compilerOptions.watch
                            /\ Get(plugin.config, "installExitHandler") # Bool(FALSE)
                         THEN {"exit", "SIGINT"} ELSE {}]
  /\ UNCHANGED <<files, state, config, compilerOptions, threadPool, pools, cache,
                 cacheFile, optionsFile, mtime, compiled, inflight, failed, exited,
                 ev, userConfig, hostConfig, snapshot>>

InitConstruct ==
  /\ InitIdle
  /\ userConfig \in UserConfigs
  /\ plugin = NoPlugin
  /\ hostConfig = <<>> /\ snapshot = NoSnapshot

NextConstruct == HappyPlugin \/ apply

SpecConstruct == InitConstruct /\ [][NextConstruct]_vars

\* C16: for every host configuration extractOptions returns a new mapping
\* whose keys are exactly the configuration's keys that are on the
\* allow-list, each with the host's value, and leaves the configuration as
\* it was
C16_SnapshotIsAllowListed ==
  [][snapshot' # snapshot =>
       /\ hostConfig' = hostConfig
       /\ Range(Keys(snapshot'.value))
            = Range(Keys(hostConfig)) \cap Range(SERIALIZABLE_OPTIONS)
       /\ Len(snapshot'.value) = Cardinality(Range(Keys(snapshot'.value)))
       /\ \A key \in Range(Keys(snapshot'.value)) :
            Get(snapshot'.value, key) = Get(hostConfig, key)]_vars

\* C16 witness: a snapshot was taken of a configuration that has keys on
\* the allow-list and keys off it
C16_Witness ==
  /\ snapshot.called
  /\ {"entry", "plugins", "output", "watch"} \subseteq Range(Keys(hostConfig))
  /\ Range(Keys(snapshot.value)) = {"output", "watch"}
  /\ Get(snapshot.value, "output") = Undefined

\* C17: for every user configuration that lacks a required key (loaders),
\* whatever else it holds, the constructor fails with an error whose
\* message names the key and the engine's id, and has made no temp
\* directory, no cache handle and no hook
C17_MissingRequiredOption ==
  \A key \in {k \in Range(Keys(Schema)) : Get(Schema, k).isRequired} :
    (plugin.phase # "new" /\ ~hasOwnProperty(userConfig, key)) =>
      /\ plugin.phase = "failed"
      /\ plugin.id # ""
      /\ plugin.error = "HappyPack[" \o plugin.id
                        \o "]: Missing required parameter '" \o key \o "'"
      /\ plugin.steps = <<"OptionParser:throw">>
      /\ plugin.config = <<>>
      /\ plugin.hooks = {}

\* C17 witness: construction failed for a configuration without loaders
\* that also holds an unrecognized option and an option of the wrong type
C17_Witness ==
  /\ plugin.phase = "failed"
  /\ ~hasOwnProperty(userConfig, "loaders")
  /\ hasOwnProperty(userConfig, "verbose")
  /\ hasOwnProperty(userConfig, "threads")
  /\ Get(userConfig, "threads") = Str("two")
  /\ Keys(userConfig)[1] = "verbose"
  /\ plugin.error = "HappyPack[1]: Missing required parameter 'loaders'"

====
